---- MODULE Spec2Model ----
(***************************************************************************)
(* Model of python/intro-pytorch.ipynb: the notebook's code cells run from *)
(* top to bottom as one synchronous script.  Every statement of the script *)
(* is one action; pc is the statement about to run.  Tensor contents are   *)
(* symbolic (which call produced them), their device, shape and type are   *)
(* concrete.  The two facts of the machine the script depends on (is the   *)
(* torch module installed, is a CUDA device available) are chosen in Init. *)
(***************************************************************************)
EXTENDS Integers, Sequences, FiniteSets

VARIABLES
    torch_installed,      \* environment: `import torch` can succeed
    cuda_available,       \* environment: torch.cuda.is_available()
    pc,                   \* the statement about to run, "done" or "error"
    err,                  \* the statement that raised ("" when none did)
    executed,             \* the statements that ran to completion
    stdout,               \* the lines printed so far
    default_tensor_type,  \* torch's default tensor type
    a, b, c, d,           \* the tensors of the CUDA check cells
    use_cuda,             \* "unset", "True" or "False"
    alias,                \* FloatTensor, LongTensor, ByteTensor, Tensor
    x, y,                 \* the network input and expected output
    layers,               \* model: the Sequential container's layers
    params,               \* model.parameters(): name -> parameter
    loss_fn,              \* "unset" or the loss module
    learning_rate,        \* <<numerator, denominator>>, <<0, 1>> when unset
    it,                   \* items of range(500) consumed by the for loop
    t,                    \* the loop variable
    y_pred,               \* the last prediction
    loss,                 \* the last loss
    k,                    \* parameters updated so far in this iteration
    iterSteps             \* the loop-body statements run in this iteration

env     == <<torch_installed, cuda_available>>
ctl     == <<pc, err, executed>>
tensors == <<a, b, c, d>>
cfg     == <<use_cuda, alias, default_tensor_type>>
data    == <<x, y>>
net     == <<layers, params>>
hyper   == <<loss_fn, learning_rate>>
loopv   == <<it, t, y_pred, loss, k, iterSteps>>
vars    == <<env, ctl, stdout, tensors, cfg, data, net, hyper, loopv>>

----------------------------------------------------------------------------
(* Program constants *)

N       == 64
dim_in  == 1000
H       == 100
dim_out == 10
NumIters == 500
LrNum == 1
LrDen == 10000

(* Bound of the model: how many distinct outcomes a random draw may have *)
MaxDraw == 2
Draws == 1..MaxDraw

----------------------------------------------------------------------------
(* Tensor types and tensors *)

CudaTypes == {"torch.cuda.FloatTensor", "torch.cuda.LongTensor", "torch.cuda.ByteTensor"}

DeviceOf(type) == IF type \in CudaTypes THEN "cuda" ELSE "cpu"

NoTensor == [type |-> "none", shape |-> <<>>, op |-> "none", id |-> 0, requires_grad |-> FALSE]

MkTensor(type, shape, op, id) ==
    [type |-> type, shape |-> shape, op |-> op, id |-> id, requires_grad |-> FALSE]

Dev(tensor) == IF tensor.type = "none" THEN "none" ELSE DeviceOf(tensor.type)

\* tensor.cuda(): the same tensor as the CUDA type of its element type
ToCuda(tensor) == [tensor EXCEPT !.type = "torch.cuda.FloatTensor"]

\* A prediction or a loss remembers the iteration that computed it and, for
\* every parameter, how many updates the parameter had received by then
NoPred == [type |-> "none", shape |-> <<>>, t |-> -1, at |-> <<>>]

NoLoss == [type |-> "none", t |-> -1, at |-> <<>>]

NoAlias == [FloatTensor |-> "unset", LongTensor |-> "unset", ByteTensor |-> "unset", Tensor |-> "unset"]


----------------------------------------------------------------------------
(* Library behaviour the script relies on *)

\* Variant: CUDA initialisation that never raises
CudaInitAlways == TRUE

\* torch.cuda's lazy initialisation: any CUDA allocation raises without a device
CudaInitOK == cuda_available

\* Constructing a tensor of `type` succeeds unless it is a CUDA type and CUDA
\* cannot be initialised
CanAlloc(type) == DeviceOf(type) = "cuda" => CudaInitOK

\* Variant: the call leaves the default tensor type at the CPU float type
KeepDefaultTensorType(name) == "torch.FloatTensor"

\* torch.set_default_tensor_type(name)
SetDefaultTensorType(name) == name

\* torch.randn(*sizes): a tensor of the default tensor type with a random draw
Randn(shape, draw) == MkTensor(default_tensor_type, shape, "randn", draw)

\* Variable(tensor, requires_grad=flag)
Variable(tensor, flag) == [tensor EXCEPT !.requires_grad = flag]

----------------------------------------------------------------------------
(* The state before the first cell runs *)

Init ==
    /\ torch_installed \in BOOLEAN
    /\ cuda_available \in BOOLEAN
    /\ pc = "import_torch"
    /\ err = ""
    /\ executed = {}
    /\ stdout = <<>>
    /\ default_tensor_type = "torch.FloatTensor"
    /\ a = NoTensor /\ b = NoTensor /\ c = NoTensor /\ d = NoTensor
    /\ use_cuda = "unset"
    /\ alias = NoAlias
    /\ x = NoTensor /\ y = NoTensor
    /\ layers = <<>>
    /\ params = <<>>
    /\ loss_fn = "unset"
    /\ learning_rate = <<0, 1>>
    /\ it = 0
    /\ t = -1
    /\ y_pred = NoPred
    /\ loss = NoLoss
    /\ k = 0
    /\ iterSteps = <<>>

----------------------------------------------------------------------------
(* Control: a statement either completes and hands over to the next one, or *)
(* raises; nothing in the script catches an exception.                      *)

Goto(next) ==
    /\ pc' = next
    /\ executed' = executed \cup {pc}
    /\ err' = err

Raise ==
    /\ pc' = "error"
    /\ err' = pc
    /\ executed' = executed

Line(text, label) == [text |-> text, t |-> label]

Emit(text, label) == stdout' = Append(stdout, Line(text, label))

----------------------------------------------------------------------------
(* Cells 1-3: loading PyTorch, verifying CUDA *)

ImportTorch ==
    /\ pc = "import_torch"
    /\ IF torch_installed THEN Goto("print_version") ELSE Raise
    /\ UNCHANGED <<env, stdout, tensors, cfg, data, net, hyper, loopv>>

PrintVersion ==
    /\ pc = "print_version"
    /\ Emit("torch.__version__", -1)
    /\ Goto("print_cuda")
    /\ UNCHANGED <<env, tensors, cfg, data, net, hyper, loopv>>

PrintCudaAvailable ==
    /\ pc = "print_cuda"
    /\ Emit(IF cuda_available THEN "CUDA available: True" ELSE "CUDA available: False", -1)
    /\ Goto("alloc_a")
    /\ UNCHANGED <<env, tensors, cfg, data, net, hyper, loopv>>

(* Cell 4: a, b, c *)

AllocA ==
    /\ pc = "alloc_a"
    /\ IF CanAlloc("torch.cuda.FloatTensor")
         THEN /\ a' = MkTensor("torch.cuda.FloatTensor", <<2>>, "zero_", 0)
              /\ Goto("print_a")
         ELSE /\ a' = a
              /\ Raise
    /\ UNCHANGED <<env, stdout, b, c, d, cfg, data, net, hyper, loopv>>

PrintA ==
    /\ pc = "print_a"
    /\ Emit("Tensor a", -1)
    /\ Goto("alloc_b")
    /\ UNCHANGED <<env, tensors, cfg, data, net, hyper, loopv>>

AllocB ==
    /\ pc = "alloc_b"
    /\ \E draw \in Draws :
         IF CanAlloc("torch.cuda.FloatTensor")
           THEN /\ b' = ToCuda(Randn(<<2>>, draw))
                /\ Goto("print_b")
           ELSE /\ b' = b
                /\ Raise
    /\ UNCHANGED <<env, stdout, a, c, d, cfg, data, net, hyper, loopv>>

PrintB ==
    /\ pc = "print_b"
    /\ Emit("Tensor b", -1)
    /\ Goto("add_c")
    /\ UNCHANGED <<env, tensors, cfg, data, net, hyper, loopv>>

AddC ==
    /\ pc = "add_c"
    /\ IF a.type = b.type /\ a.shape = b.shape
         THEN /\ c' = MkTensor(a.type, a.shape, "add", b.id)
              /\ Goto("print_c")
         ELSE /\ c' = c
              /\ Raise
    /\ UNCHANGED <<env, stdout, a, b, d, cfg, data, net, hyper, loopv>>

PrintC ==
    /\ pc = "print_c"
    /\ Emit("Tensor c", -1)
    /\ Goto("set_use_cuda")
    /\ UNCHANGED <<env, tensors, cfg, data, net, hyper, loopv>>

(* Cell 5: use_cuda, the tensor-type aliases, the default tensor type, d *)

SetUseCuda ==
    /\ pc = "set_use_cuda"
    /\ use_cuda' = IF cuda_available THEN "True" ELSE "False"
    /\ Goto("set_aliases")
    /\ UNCHANGED <<env, stdout, tensors, alias, default_tensor_type, data, net, hyper, loopv>>

SetAliases ==
    /\ pc = "set_aliases"
    /\ LET float == IF use_cuda = "True" THEN "torch.cuda.FloatTensor" ELSE "torch.FloatTensor"
           long  == IF use_cuda = "True" THEN "torch.cuda.LongTensor" ELSE "torch.LongTensor"
           byte  == IF use_cuda = "True" THEN "torch.cuda.ByteTensor" ELSE "torch.ByteTensor"
       IN  alias' = [FloatTensor |-> float, LongTensor |-> long, ByteTensor |-> byte, Tensor |-> float]
    /\ Goto("set_default")
    /\ UNCHANGED <<env, stdout, tensors, use_cuda, default_tensor_type, data, net, hyper, loopv>>

SetDefault ==
    /\ pc = "set_default"
    /\ default_tensor_type' =
         IF use_cuda = "True" THEN SetDefaultTensorType("torch.cuda.FloatTensor")
                              ELSE default_tensor_type
    /\ Goto("alloc_d")
    /\ UNCHANGED <<env, stdout, tensors, use_cuda, alias, data, net, hyper, loopv>>

AllocD ==
    /\ pc = "alloc_d"
    /\ IF CanAlloc(alias.FloatTensor)
         THEN /\ d' = MkTensor(alias.FloatTensor, <<2, 3>>, "literal", 0)
              /\ Goto("print_d")
         ELSE /\ d' = d
              /\ Raise
    /\ UNCHANGED <<env, stdout, a, b, c, cfg, data, net, hyper, loopv>>

PrintD ==
    /\ pc = "print_d"
    /\ Emit("Tensor d", -1)
    /\ Goto("import_nn")
    /\ UNCHANGED <<env, tensors, cfg, data, net, hyper, loopv>>


----------------------------------------------------------------------------
(* The network: layers, parameters, forward pass, loss, autograd *)

Linear(in_features, out_features) ==
    [kind |-> "Linear", in_features |-> in_features, out_features |-> out_features]

ReLU == [kind |-> "ReLU", in_features |-> 0, out_features |-> 0]

\* Variant: the output layer built with H outputs
SequentialLayersWide == <<Linear(dim_in, H), ReLU, Linear(H, H)>>

\* nn.Sequential(nn.Linear(dim_in, H), nn.ReLU(), nn.Linear(H, dim_out))
SequentialLayers == <<Linear(dim_in, H), ReLU, Linear(H, dim_out)>>

NoGrad == [none |-> TRUE, terms |-> <<>>]

NoStep == [sign |-> 0, lr |-> <<0, 1>>, g |-> <<>>]

\* A parameter tensor of layer number `layer`, allocated as the default tensor
\* type: `steps` counts the updates of its data, `last` is the last update
Parameter(layer, name, shape, draw) ==
    [layer |-> layer, name |-> name, type |-> default_tensor_type, shape |-> shape,
     init |-> draw, steps |-> 0, last |-> NoStep, grad |-> NoGrad]

LayerParameters(layer, i, draw) ==
    IF layer.kind = "Linear"
      THEN << Parameter(i, "weight", <<layer.out_features, layer.in_features>>, draw),
              Parameter(i, "bias", <<layer.out_features>>, draw) >>
      ELSE << >>

RECURSIVE ModelParameters(_, _, _)
\* model.parameters(): the layers' parameters in the order of the layers
ModelParameters(ls, i, draw) ==
    IF i > Len(ls) THEN << >>
    ELSE LayerParameters(ls[i], i, draw) \o ModelParameters(ls, i + 1, draw)

\* model.cuda(): every parameter becomes a CUDA tensor
ModelCuda(ps) == [i \in DOMAIN ps |-> [ps[i] EXCEPT !.type = "torch.cuda.FloatTensor"]]

Failed == [ok |-> FALSE, type |-> "none", shape |-> <<>>]

\* One layer applied to its input: a Linear layer raises unless the input is
\* N x in_features and of the type of its weight and bias
ApplyLayer(layer, i, inp) ==
    IF layer.kind = "Linear"
      THEN IF /\ Len(inp.shape) = 2
              /\ inp.shape[2] = layer.in_features
              /\ \A j \in DOMAIN params : params[j].layer = i => params[j].type = inp.type
             THEN [ok |-> TRUE, type |-> inp.type, shape |-> <<inp.shape[1], layer.out_features>>]
             ELSE Failed
      ELSE inp

RECURSIVE Forward(_, _, _)
\* model(x): the layers applied in sequence
Forward(ls, i, inp) ==
    IF i > Len(ls) \/ ~inp.ok THEN inp
    ELSE Forward(ls, i + 1, ApplyLayer(ls[i], i, inp))

\* loss_fn(y_pred, y) is defined for a target that requires no gradient and has
\* the type and shape of the prediction
LossDefined(pred, target) ==
    /\ ~target.requires_grad
    /\ pred.type = target.type
    /\ pred.shape = target.shape

\* Variant: zero_grad that leaves the gradients as they are
ZeroGradNoop(ps) == ps

\* model.zero_grad(): every gradient that exists is set to zero
ZeroGrad(ps) ==
    [i \in DOMAIN ps |->
        IF ps[i].grad.none THEN ps[i] ELSE [ps[i] EXCEPT !.grad.terms = << >>]]

\* loss.backward(): the gradient of `l` is added to every parameter's gradient
Backward(ps, l) ==
    [i \in DOMAIN ps |->
        [ps[i] EXCEPT !.grad = [none |-> FALSE,
                                terms |-> Append(ps[i].grad.terms, [t |-> l.t, at |-> l.at[i]])]]]

\* Variant: the update written with += instead of -=
SgdStepPlus(p, lr) ==
    [p EXCEPT !.steps = @ + 1, !.last = [sign |-> 1, lr |-> lr, g |-> p.grad.terms]]

\* param.data -= learning_rate * param.grad.data
SgdStep(p, lr) ==
    [p EXCEPT !.steps = @ + 1, !.last = [sign |-> -1, lr |-> lr, g |-> p.grad.terms]]

----------------------------------------------------------------------------
(* Cells 6-9: imports, data, model, loss function *)

ImportNN ==
    /\ pc = "import_nn"
    /\ IF torch_installed THEN Goto("set_dims") ELSE Raise
    /\ UNCHANGED <<env, stdout, tensors, cfg, data, net, hyper, loopv>>

SetDims ==
    /\ pc = "set_dims"
    /\ Goto("alloc_x")
    /\ UNCHANGED <<env, stdout, tensors, cfg, data, net, hyper, loopv>>

AllocX ==
    /\ pc = "alloc_x"
    /\ \E draw \in Draws :
         IF CanAlloc(default_tensor_type)
           THEN /\ x' = Variable(Randn(<<N, dim_in>>, draw), FALSE)
                /\ Goto("alloc_y")
           ELSE /\ x' = x
                /\ Raise
    /\ UNCHANGED <<env, stdout, tensors, cfg, y, net, hyper, loopv>>

AllocY ==
    /\ pc = "alloc_y"
    /\ \E draw \in Draws :
         IF CanAlloc(default_tensor_type)
           THEN /\ y' = Variable(Randn(<<N, dim_out>>, draw), FALSE)
                /\ Goto("print_x")
           ELSE /\ y' = y
                /\ Raise
    /\ UNCHANGED <<env, stdout, tensors, cfg, x, net, hyper, loopv>>

PrintX ==
    /\ pc = "print_x"
    /\ Emit("x", -1)
    /\ Goto("build_model")
    /\ UNCHANGED <<env, tensors, cfg, data, net, hyper, loopv>>

BuildModel ==
    /\ pc = "build_model"
    /\ \E draw \in Draws :
         IF CanAlloc(default_tensor_type)
           THEN /\ layers' = SequentialLayers
                /\ params' = ModelParameters(SequentialLayers, 1, draw)
                /\ Goto("model_cuda")
           ELSE /\ UNCHANGED net
                /\ Raise
    /\ UNCHANGED <<env, stdout, tensors, cfg, data, hyper, loopv>>

MigrateModel ==
    /\ pc = "model_cuda"
    /\ IF use_cuda = "True"
         THEN IF CudaInitOK
                THEN /\ params' = ModelCuda(params)
                     /\ Goto("print_model")
                ELSE /\ params' = params
                     /\ Raise
         ELSE /\ params' = params
              /\ Goto("print_model")
    /\ UNCHANGED <<env, stdout, tensors, cfg, data, layers, hyper, loopv>>

PrintModel ==
    /\ pc = "print_model"
    /\ Emit("model", -1)
    /\ Goto("set_loss_fn")
    /\ UNCHANGED <<env, tensors, cfg, data, net, hyper, loopv>>

SetLossFn ==
    /\ pc = "set_loss_fn"
    /\ loss_fn' = "MSELoss(size_average=False)"
    /\ Goto("set_lr")
    /\ UNCHANGED <<env, stdout, tensors, cfg, data, net, learning_rate, loopv>>


----------------------------------------------------------------------------
(* Cell 10: the training loop *)

\* Variant: the backward pass placed before the zeroing of the gradients
BodyOrderSwapped == <<"forward", "loss", "print_loss", "backward", "zero_grad", "update">>

\* The statements of the loop body, in the order the cell lists them
BodyOrder == <<"forward", "loss", "print_loss", "zero_grad", "backward", "update">>

\* The statement that follows `label` in the loop body; the loop head follows
\* the last one
NextInBody(label) ==
    LET i == CHOOSE j \in DOMAIN BodyOrder : BodyOrder[j] = label
    IN  IF i = Len(BodyOrder) THEN "for_t" ELSE BodyOrder[i + 1]

\* Variant: a range that yields one item more
HasNextInclusive(n) == n <= NumIters

\* range(500): whether an item is left after `n` were consumed, and the item
HasNext(n) == n < NumIters

RangeItem(n) == n

\* A loop-body statement completes
BodyGoto(next) ==
    /\ Goto(next)
    /\ iterSteps' = Append(iterSteps, pc)

SetLearningRate ==
    /\ pc = "set_lr"
    /\ learning_rate' = <<LrNum, LrDen>>
    /\ Goto("for_t")
    /\ UNCHANGED <<env, stdout, tensors, cfg, data, net, loss_fn, loopv>>

ForT ==
    /\ pc = "for_t"
    /\ IF HasNext(it)
         THEN /\ t' = RangeItem(it)
              /\ it' = it + 1
              /\ k' = 0
              /\ iterSteps' = << >>
              /\ Goto(BodyOrder[1])
         ELSE /\ UNCHANGED <<it, t, k, iterSteps>>
              /\ Goto("done")
    /\ UNCHANGED <<env, stdout, tensors, cfg, data, net, hyper, y_pred, loss>>

ForwardPass ==
    /\ pc = "forward"
    /\ LET out == Forward(layers, 1, [ok |-> TRUE, type |-> x.type, shape |-> x.shape])
       IN  IF out.ok
             THEN /\ y_pred' = [type |-> out.type, shape |-> out.shape, t |-> t,
                                at |-> [i \in DOMAIN params |-> params[i].steps]]
                  /\ BodyGoto(NextInBody(pc))
             ELSE /\ UNCHANGED <<y_pred, iterSteps>>
                  /\ Raise
    /\ UNCHANGED <<env, stdout, tensors, cfg, data, net, hyper, it, t, loss, k>>

ComputeLoss ==
    /\ pc = "loss"
    /\ IF LossDefined(y_pred, y)
         THEN /\ loss' = [type |-> y_pred.type, t |-> y_pred.t, at |-> y_pred.at]
              /\ BodyGoto(NextInBody(pc))
         ELSE /\ UNCHANGED <<loss, iterSteps>>
              /\ Raise
    /\ UNCHANGED <<env, stdout, tensors, cfg, data, net, hyper, it, t, y_pred, k>>

PrintLoss ==
    /\ pc = "print_loss"
    /\ Emit("iteration, loss", t)
    /\ BodyGoto(NextInBody(pc))
    /\ UNCHANGED <<env, tensors, cfg, data, net, hyper, it, t, y_pred, loss, k>>

ZeroGradients ==
    /\ pc = "zero_grad"
    /\ params' = ZeroGrad(params)
    /\ BodyGoto(NextInBody(pc))
    /\ UNCHANGED <<env, stdout, tensors, cfg, data, layers, hyper, it, t, y_pred, loss, k>>

BackwardPass ==
    /\ pc = "backward"
    /\ params' = Backward(params, loss)
    /\ BodyGoto(NextInBody(pc))
    /\ UNCHANGED <<env, stdout, tensors, cfg, data, layers, hyper, it, t, y_pred, loss, k>>

\* One pass of `for param in model.parameters()`: the next parameter is updated;
\* the statement is left after the last one
UpdateParam ==
    /\ pc = "update"
    /\ k < Len(params)
    /\ IF params[k + 1].grad.none
         THEN /\ UNCHANGED <<params, k, iterSteps>>
              /\ Raise
         ELSE /\ params' = [params EXCEPT ![k + 1] = SgdStep(params[k + 1], learning_rate)]
              /\ k' = k + 1
              /\ BodyGoto(IF k + 1 = Len(params) THEN NextInBody(pc) ELSE pc)
    /\ UNCHANGED <<env, stdout, tensors, cfg, data, layers, hyper, it, t, y_pred, loss>>

----------------------------------------------------------------------------

Next ==
    \/ ImportTorch \/ PrintVersion \/ PrintCudaAvailable
    \/ AllocA \/ PrintA \/ AllocB \/ PrintB \/ AddC \/ PrintC
    \/ SetUseCuda \/ SetAliases \/ SetDefault \/ AllocD \/ PrintD
    \/ ImportNN \/ SetDims \/ AllocX \/ AllocY \/ PrintX
    \/ BuildModel \/ MigrateModel \/ PrintModel \/ SetLossFn
    \/ SetLearningRate \/ ForT \/ ForwardPass \/ ComputeLoss \/ PrintLoss
    \/ ZeroGradients \/ BackwardPass \/ UpdateParam

Spec == Init /\ [][Next]_vars


----------------------------------------------------------------------------
(* Properties *)

LoopLabels == {"for_t", "forward", "loss", "print_loss", "zero_grad", "backward", "update"}

\* What one complete iteration runs: the five steps (the loss is computed and
\* then printed), the last one being one update per parameter of the model
FullIteration ==
    <<"forward", "loss", "print_loss", "zero_grad", "backward",
      "update", "update", "update", "update">>

\* The labels of the loss lines printed so far, in the order printed
LossLabels ==
    LET ls == SelectSeq(stdout, LAMBDA l : l.text = "iteration, loss")
    IN  [i \in DOMAIN ls |-> ls[i].t]

\* C1: within an iteration the statements run are a prefix of forward, loss
\* (and its print), zero_grad, backward, update of every parameter, and the
\* statement about to run is the next of that list; the loop head is reached
\* again only with the whole list run; while the steps before the update run,
\* every parameter has exactly the updates of the iterations before.
C1_StepOrder ==
    /\ pc \in LoopLabels \ {"for_t"} =>
          /\ Len(iterSteps) < Len(FullIteration)
          /\ iterSteps = SubSeq(FullIteration, 1, Len(iterSteps))
          /\ pc = FullIteration[Len(iterSteps) + 1]
    /\ (pc = "for_t" /\ it > 0) \/ pc = "done" => iterSteps = FullIteration
    /\ pc \in {"forward", "loss", "print_loss", "zero_grad", "backward"} =>
          /\ t = it - 1
          /\ \A i \in DOMAIN params : params[i].steps = t

C1_Witness == pc = "for_t" /\ it = 2 /\ iterSteps = FullIteration

\* What is left to run: a natural number, 0 once the script has ended
Remaining ==
    IF pc \in {"done", "error"} THEN 0
    ELSE 1 + (500 - it) * 10 + (9 - Len(iterSteps))

\* C2: in the loop the script is never stuck and nothing raises, every step
\* strictly decreases the natural number Remaining (so the loop ends), and when
\* it has ended 500 items were taken from the range, the loss lines printed are
\* labelled 0, 1, ..., 499 in that order, and each of the four parameters has
\* received 500 updates.
C2_Terminates500 ==
    /\ [](pc \in LoopLabels => ENABLED Next /\ err = "")
    /\ [](pc = "done" =>
            /\ it = 500
            /\ LossLabels = [i \in 1..500 |-> i - 1]
            /\ Len(params) = 4
            /\ \A i \in DOMAIN params : params[i].steps = 500)
    /\ [][(pc \in LoopLabels) => (Remaining' < Remaining /\ Remaining' >= 0)]_vars

C2_Witness == pc = "done" /\ it = 500 /\ Len(LossLabels) = 500

\* C4: without the torch module the script stops at `import torch`, without a
\* CUDA device at the allocation of a; it stops with the error of that
\* statement, no statement runs after it, and nothing a later statement would
\* have set is set.
C4_FailStops ==
    /\ ~torch_installed =>
          /\ pc \in {"import_torch", "error"}
          /\ executed = {}
          /\ pc = "error" => err = "import_torch"
    /\ torch_installed /\ ~cuda_available =>
          /\ pc \in {"import_torch", "print_version", "print_cuda", "alloc_a", "error"}
          /\ executed \subseteq {"import_torch", "print_version", "print_cuda"}
          /\ pc = "error" => err = "alloc_a"
    /\ pc = "error" =>
          /\ ~ENABLED Next
          /\ err \notin executed
          /\ use_cuda = "unset" /\ alias = NoAlias
          /\ default_tensor_type = "torch.FloatTensor"
          /\ layers = << >> /\ params = << >>
          /\ it = 0

C4_Witness == pc = "error" /\ err = "alloc_a" /\ ~cuda_available

\* C5: the model is Linear(1000, 100), ReLU, Linear(100, 10); the forward pass
\* of the 64 x 1000 input never raises and yields a 64 x 10 prediction, which
\* is the shape of y, so the loss is defined on it.
C5_Shapes ==
    /\ pc \in LoopLabels \cup {"done"} =>
          layers = << [kind |-> "Linear", in_features |-> 1000, out_features |-> 100],
                      [kind |-> "ReLU", in_features |-> 0, out_features |-> 0],
                      [kind |-> "Linear", in_features |-> 100, out_features |-> 10] >>
    /\ pc = "forward" => x.shape = <<64, 1000>> /\ y.shape = <<64, 10>>
    /\ pc = "loss" => y_pred.t = t /\ y_pred.shape = <<64, 10>> /\ y_pred.shape = y.shape
    /\ pc = "error" => err \notin {"forward", "loss"}

C5_Witness == pc = "loss" /\ t = 1 /\ y_pred.shape = <<64, 10>>

\* C6: when the update runs, the gradient of every parameter not yet updated
\* is the single gradient of this iteration's loss, taken at the value the
\* parameter had at this iteration's forward pass, and that is the gradient
\* the parameters already updated were updated with.
C6_FreshGradient ==
    pc = "update" \/ (pc = "for_t" /\ it > 0) \/ pc = "done" =>
        \A i \in DOMAIN params :
            IF pc = "update" /\ i > k
              THEN params[i].grad =
                     [none |-> FALSE, terms |-> << [t |-> t, at |-> params[i].steps] >>]
              ELSE params[i].last.g = << [t |-> t, at |-> params[i].steps - 1] >>

C6_Witness == pc = "update" /\ t = 2 /\ k = 1 /\ params[1].steps = 3

\* C7: at every forward pass and loss computation the parameters, x and y are
\* on one device: with use_cuda the default tensor type is the CUDA type, the
\* model was migrated and all are on the GPU, without it all are on the CPU.
C7_SameDevice ==
    pc \in {"forward", "loss"} =>
        /\ use_cuda \in {"True", "False"}
        /\ Dev(x) = Dev(y)
        /\ \A i \in DOMAIN params : Dev(params[i]) = Dev(x)
        /\ use_cuda = "True" =>
              /\ default_tensor_type = "torch.cuda.FloatTensor"
              /\ "model_cuda" \in executed
              /\ Dev(x) = "cuda"
        /\ use_cuda = "False" =>
              /\ default_tensor_type = "torch.FloatTensor"
              /\ Dev(x) = "cpu"

C7_Witness == pc = "forward" /\ t = 1 /\ use_cuda = "True" /\ Dev(x) = "cuda" /\ Dev(params[1]) = "cuda"

\* C8 (as claimed): d is created through a name that states no CUDA type, so
\* that its being a CUDA tensor shows the default tensor type.
C8_DViaDefaultType == d.type # "none" => alias.FloatTensor \notin CudaTypes

\* C9 (as claimed): without a CUDA device the script does not stop with an
\* error; it goes on with the CPU tensor types.
C9_CpuFallback == torch_installed /\ ~cuda_available => pc # "error"

\* C9 (amended): without a CUDA device the script does not reach the CPU
\* fallback: it stops at the allocation of a, before use_cuda is assigned, so
\* use_cuda is never false, the aliases never name the CPU tensor types, no
\* model is built and no iteration runs; a run that reaches the training loop
\* has a CUDA device and runs on it.
C9_StopsBeforeFallback ==
    /\ use_cuda # "False"
    /\ alias.FloatTensor # "torch.FloatTensor"
    /\ torch_installed /\ ~cuda_available =>
          /\ pc \notin LoopLabels \cup {"done"}
          /\ "alloc_a" \notin executed
          /\ layers = << >> /\ params = << >> /\ it = 0
    /\ pc \in LoopLabels \cup {"done"} =>
          /\ cuda_available /\ use_cuda = "True"
          /\ \A i \in DOMAIN params : Dev(params[i]) = "cuda"

C9_Witness ==
    /\ torch_installed /\ ~cuda_available
    /\ pc = "error" /\ use_cuda = "unset" /\ "print_cuda" \in executed

\* The condition on one step of the training loop: it leaves x, y, learning_rate (1e-4), the
\* loss function, the layers and use_cuda as they are, and of a parameter it
\* changes the gradient and the data only; the data of a parameter changes in
\* the update alone, one parameter at a time, to data - learning_rate * grad;
\* at the loop head every parameter has one update per iteration run.
LoopStepFrame ==
    pc \in LoopLabels =>
        /\ x' = x /\ y' = y
        /\ learning_rate' = learning_rate /\ learning_rate = <<1, 10000>>
        /\ loss_fn' = loss_fn /\ layers' = layers /\ use_cuda' = use_cuda
        /\ DOMAIN params' = DOMAIN params
        /\ \A i \in DOMAIN params :
              /\ [params'[i] EXCEPT !.grad = NoGrad, !.steps = 0, !.last = NoStep]
                   = [params[i] EXCEPT !.grad = NoGrad, !.steps = 0, !.last = NoStep]
              /\ IF pc = "update" /\ pc' # "error" /\ i = k + 1
                   THEN /\ params'[i].steps = params[i].steps + 1
                        /\ params'[i].last =
                             [sign |-> -1, lr |-> <<1, 10000>>, g |-> params[i].grad.terms]
                        /\ params'[i].grad = params[i].grad
                   ELSE /\ params'[i].steps = params[i].steps
                        /\ params'[i].last = params[i].last
        /\ pc = "for_t" => \A i \in DOMAIN params : params[i].steps = it

\* C10: every step of the training loop changes only the parameters' data and
\* gradients (LoopStepFrame): x, y, learning_rate, the loss function, the layers
\* and use_cuda stay as they were, and each parameter is updated once per
\* iteration as data - learning_rate * grad.
C10_LoopFrame == [][LoopStepFrame]_vars

C10_Witness == pc = "update" /\ t = 1 /\ k = 2 /\ params[2].steps = 2 /\ params[3].steps = 1

====
